---- MODULE Spec2Model ----
(***************************************************************************)
(* Model of posts/blr/functions/utils.py and plotting.py: the rescaler     *)
(* (rescale_target), the prediction extractor (extract_model_predictions), *)
(* the scorer (calculate_r2_rmse) and the row filter of                    *)
(* plot_scatter_predictions_uncertainty.                                   *)
(*                                                                         *)
(* Numbers are exact rationals [n |-> numerator, d |-> denominator] with   *)
(* d > 0; the float NaN is the record with d = 0.  Floating-point rounding *)
(* is not modelled: arithmetic is that of the reals.                       *)
(*                                                                         *)
(* A table (pandas DataFrame) is a function from its column names to       *)
(* columns, each column a sequence with one entry per row.                 *)
(***************************************************************************)
EXTENDS Integers, Sequences, FiniteSets, TLC

VARIABLES args, ret, calls

vars == <<args, ret, calls>>

(***************************************************************************)
(* Bounds of the model.                                                    *)
(***************************************************************************)
MaxRows == 2
MaxCalls == 2

(***************************************************************************)
(* Floats.                                                                 *)
(***************************************************************************)
NaN == [n |-> 0, d |-> 0]

Num(i) == [n |-> i, d |-> 1]

Frac(p, q) == [n |-> p, d |-> q]

IsNaN(x) == x.d = 0

RECURSIVE Gcd(_, _)
Gcd(a, b) == IF b = 0 THEN a ELSE Gcd(b, a % b)

Abs(i) == IF i < 0 THEN -i ELSE i

\* the rational p / q (q > 0) in lowest terms
Norm(p, q) == LET g == Gcd(Abs(p), q) IN [n |-> p \div g, d |-> q \div g]

\* x * y, x + y, x - y of floats: NaN if either operand is NaN
FMul(x, y) == IF IsNaN(x) \/ IsNaN(y) THEN NaN ELSE Norm(x.n * y.n, x.d * y.d)

FAdd(x, y) == IF IsNaN(x) \/ IsNaN(y) THEN NaN ELSE Norm(x.n * y.d + y.n * x.d, x.d * y.d)

FSub(x, y) == IF IsNaN(x) \/ IsNaN(y) THEN NaN ELSE Norm(x.n * y.d - y.n * x.d, x.d * y.d)

\* x == y and x <= y of floats: any comparison with NaN is false
FEq(x, y) == ~IsNaN(x) /\ ~IsNaN(y) /\ x.n * y.d = y.n * x.d

FLe(x, y) == ~IsNaN(x) /\ ~IsNaN(y) /\ x.n * y.d <= y.n * x.d

(***************************************************************************)
(* Tables.                                                                 *)
(***************************************************************************)
Columns(t) == DOMAIN t

NRows(t) == Len(t["location"])

\* DataFrame.assign(name = col) / data[name] = col: a table with column name set
SetColumn(t, name, col) == [c \in Columns(t) \cup {name} |-> IF c = name THEN col ELSE t[c]]

\* DataFrame.drop(columns = names)
DropColumns(t, names) == [c \in Columns(t) \ names |-> t[c]]

\* Series.map(mapping): the mapping's value for a key it holds, NaN for any other key
SeriesMap(col, mapping) == [i \in 1..Len(col) |-> IF col[i] \in DOMAIN mapping THEN Num(mapping[col[i]]) ELSE NaN]


(***************************************************************************)
(* A call's outcome: err = "none" and the returned value, or the exception *)
(* raised and no value.                                                    *)
(***************************************************************************)
Ok(v) == [err |-> "none", val |-> v]

Raise(e) == [err |-> e, val |-> <<>>]

Pending == [err |-> "pending", val |-> <<>>]

Returned(r) == r.err = "none"

(***************************************************************************)
(* rescale_target                                                          *)
(***************************************************************************)
\* value * (scale_max - scale_min) + scale_min, with scale_max in place of the offset
RescaleValueMaxOffset(v, mn, mx) == FAdd(FMul(v, FSub(mx, mn)), mx)

\* value * (scale_max - scale_min) + scale_min
RescaleValue(v, mn, mx) == FAdd(FMul(v, FSub(mx, mn)), mn)

\* data[col] * (data["scale_max"] - data["scale_min"]) + data["scale_min"]: the
\* new values of column col, row by row
RescaleColumn(t, col) == [i \in 1..NRows(t) |-> RescaleValue(t[col][i], t["scale_min"][i], t["scale_max"][i])]

(***************************************************************************)
(* Table objects.  A run of rescale_target is followed on a heap of table  *)
(* objects: heap[1] is the object the caller passed, local is the object   *)
(* the function's name data refers to.  DataFrame.assign and               *)
(* DataFrame.drop build a new object; data[col] = ... writes into the      *)
(* object data refers to.                                                  *)
(***************************************************************************)
Enter(data) == [heap |-> <<data>>, local |-> 1, err |-> "none"]

\* the table with the two columns looked up per row by the row's location
\* (a column of the same name the table already has is replaced)
WithScales(t, scale_min_vals, scale_max_vals, target_name) ==
    SetColumn(SetColumn(t, "scale_min", SeriesMap(t["location"], scale_min_vals[target_name])),
              "scale_max", SeriesMap(t["location"], scale_max_vals[target_name]))

\* the two columns written into the object data refers to, no new object
AssignScalesInPlace(st, scale_min_vals, scale_max_vals, target_name) ==
    [st EXCEPT !.heap[st.local] = WithScales(st.heap[st.local], scale_min_vals, scale_max_vals, target_name)]

\* data = data.assign(scale_min = ..., scale_max = ...): assign builds a new
\* object from a copy of the table, and the name data is rebound to it
AssignScales(st, scale_min_vals, scale_max_vals, target_name) ==
    [st EXCEPT !.heap = Append(st.heap, WithScales(st.heap[st.local], scale_min_vals, scale_max_vals, target_name)),
               !.local = Len(st.heap) + 1]

\* data[col] = ...: the column is written into the object data refers to
SetItem(st, col, values) == [st EXCEPT !.heap[st.local] = SetColumn(st.heap[st.local], col, values)]

\* the loop over [target_name + _ for _ in target_appends], in list order;
\* data[col] of a column the table lacks raises KeyError
RECURSIVE RescaleLoop(_, _, _)
RescaleLoop(st, target_name, target_appends) ==
    IF target_appends = <<>> THEN st
    ELSE LET col == target_name \o Head(target_appends) IN
         IF col \notin Columns(st.heap[st.local]) THEN [st EXCEPT !.err = "KeyError"]
         ELSE RescaleLoop(SetItem(st, col, RescaleColumn(st.heap[st.local], col)), target_name, Tail(target_appends))

\* drop of scale_min alone
DropScaleMinOnly(t) == DropColumns(t, {"scale_min"})

\* the table without the columns scale_min and scale_max
DropScales(t) == DropColumns(t, {"scale_min", "scale_max"})

\* data = data.drop(columns = ["scale_min", "scale_max"]): drop builds a new
\* object and the name data is rebound to it
DropStep(st) == [st EXCEPT !.heap = Append(st.heap, DropScales(st.heap[st.local])), !.local = Len(st.heap) + 1]

\* the heap when the call ends, by return or by exception
RescaleRun(data, scale_min_vals, scale_max_vals, target_name, target_appends) ==
    IF target_name \notin DOMAIN scale_min_vals \/ target_name \notin DOMAIN scale_max_vals
    THEN [Enter(data) EXCEPT !.err = "KeyError"]
    ELSE LET looped == RescaleLoop(AssignScales(Enter(data), scale_min_vals, scale_max_vals, target_name),
                                   target_name, target_appends)
         IN IF looped.err = "none" THEN DropStep(looped) ELSE looped

\* the call's outcome: return data, the object the name refers to at the end
rescale_target(data, scale_min_vals, scale_max_vals, target_name, target_appends) ==
    LET st == RescaleRun(data, scale_min_vals, scale_max_vals, target_name, target_appends)
    IN IF st.err = "none" THEN Ok(st.heap[st.local]) ELSE Raise(st.err)

\* the caller's table after the call: the object the caller passed, as the
\* run left it
CallerData(data, scale_min_vals, scale_max_vals, target_name, target_appends) ==
    RescaleRun(data, scale_min_vals, scale_max_vals, target_name, target_appends).heap[1]

(***************************************************************************)
(* Inputs of rescale_target.                                               *)
(***************************************************************************)
Locations == {"a", "b"}

\* rows of an observation table: location, dW, dW_pred
RescaleRows ==
    { [location |-> "a", dW |-> Num(0), dW_pred |-> Frac(1, 2)],
      [location |-> "a", dW |-> Num(1), dW_pred |-> Num(2)],
      [location |-> "b", dW |-> Num(1), dW_pred |-> Num(1)],
      [location |-> "b", dW |-> Frac(1, 2), dW_pred |-> Num(0)] }

\* the table of a sequence of rows, with a further column storm
TableOf(rows) ==
    [c \in {"location", "dW", "dW_pred", "storm"} |->
        [i \in 1..Len(rows) |->
            CASE c = "location" -> rows[i].location
              [] c = "dW" -> rows[i].dW
              [] c = "dW_pred" -> rows[i].dW_pred
              [] OTHER -> Num(10 + i)]]

\* the same table with a column of its own named scale_min
WithOwnScaleMin(t) == SetColumn(t, "scale_min", [i \in 1..NRows(t) |-> Num(20 + i)])

RescaleTables ==
    UNION { { TableOf(rows) : rows \in [1..k -> RescaleRows] }
            \cup { WithOwnScaleMin(TableOf(rows)) : rows \in [1..k -> RescaleRows] } : k \in 0..MaxRows }

\* bound mappings: a location has a bound or is missing from the mapping
PartialMaps(keys, va, vb) ==
    UNION { { [l \in S |-> IF l = "a" THEN x ELSE y] : x \in va, y \in vb } : S \in SUBSET keys }

ScaleMins == { [dW |-> m] : m \in PartialMaps(Locations, {0, 1}, {2}) }

ScaleMaxs == { [dW |-> m] : m \in PartialMaps(Locations, {0, 3}, {5}) }

\* suffix lists: the default, shorter ones, one naming a column the table
\* lacks, and lists that name a suffix twice
AppendLists ==
    { <<>>, <<"">>, <<"_pred">>, <<"", "_pred">>, <<"", "_pred", "_paper">>,
      <<"", "">>, <<"_pred", "", "_pred">> }

InitRescale ==
    /\ args \in [data : RescaleTables, scale_min_vals : ScaleMins, scale_max_vals : ScaleMaxs,
                 target_name : {"dW"}, target_appends : AppendLists]
    /\ ret = Pending
    /\ calls = 0

RescaleTarget ==
    /\ calls < MaxCalls
    /\ ret' = rescale_target(args.data, args.scale_min_vals, args.scale_max_vals,
                             args.target_name, args.target_appends)
    /\ args' = [args EXCEPT !.data = CallerData(args.data, args.scale_min_vals, args.scale_max_vals,
                                                args.target_name, args.target_appends)]
    /\ calls' = calls + 1

NextRescale == RescaleTarget

SpecRescale == InitRescale /\ [][NextRescale]_vars

(***************************************************************************)
(* Sample draws (arviz InferenceData).  samples is a function from the     *)
(* names of the groups it holds to the group; a group is a function from   *)
(* variable names to arrays; an array arr[chain][draw][case] is a sequence *)
(* of chains, each a sequence of draws, each a sequence over the cases.    *)
(***************************************************************************)
NChains(arr) == Len(arr)

NDraws(arr) == Len(arr[1])

NCases(arr) == Len(arr[1][1])

RECURSIVE SumSeq(_)
SumSeq(xs) == IF xs = <<>> THEN 0 ELSE Head(xs) + SumSeq(Tail(xs))

RECURSIVE Concat(_)
Concat(seqs) == IF seqs = <<>> THEN <<>> ELSE Head(seqs) \o Concat(Tail(seqs))

\* all chain x draw values of one case
CaseValues(arr, k) == Concat([c \in 1..NChains(arr) |-> [d \in 1..NDraws(arr) |-> arr[c][d][k]]])

\* the mean over the draw dimension alone: the sum of all values over the
\* number of draws of one chain
MeanOverDrawsOnly(arr) == [k \in 1..NCases(arr) |-> Frac(SumSeq(CaseValues(arr, k)), NDraws(arr))]

\* DataArray.mean(dim = ["chain", "draw"]).values: per case, the arithmetic
\* mean over all chain x draw values
MeanChainDraw(arr) == [k \in 1..NCases(arr) |-> Frac(SumSeq(CaseValues(arr, k)), NChains(arr) * NDraws(arr))]

\* np.sort
RECURSIVE Insert(_, _)
Insert(x, sorted) ==
    IF sorted = <<>> THEN <<x>>
    ELSE IF x <= Head(sorted) THEN <<x>> \o sorted
    ELSE <<Head(sorted)>> \o Insert(x, Tail(sorted))

RECURSIVE Sort(_)
Sort(xs) == IF xs = <<>> THEN <<>> ELSE Insert(Head(xs), Sort(Tail(xs)))

\* np.argmin: the first index of the smallest entry
ArgMin(ws) == CHOOSE j \in 1..Len(ws) : /\ \A m \in 1..Len(ws) : ws[j] <= ws[m]
                                        /\ \A m \in 1..(j - 1) : ws[m] > ws[j]

\* arviz _hdi of the values of one case at probability mass pct / 100: of the
\* intervals spanning floor(mass * n) steps of the sorted values, the first
\* narrowest one
HdiOfValues(xs, pct) ==
    LET n == Len(xs)
        ary == Sort(xs)
        interval_idx_inc == (pct * n) \div 100
        n_intervals == n - interval_idx_inc
        interval_width == [j \in 1..n_intervals |-> ary[j + interval_idx_inc] - ary[j]]
        min_idx == ArgMin(interval_width)
    IN [lower |-> Num(ary[min_idx]), higher |-> Num(ary[min_idx + interval_idx_inc])]

\* az.hdi(arr, hdi_prob): per case, over the chain and draw dimensions
Hdi(arr, pct) == [k \in 1..NCases(arr) |-> HdiOfValues(CaseValues(arr, k), pct)]

(***************************************************************************)
(* extract_model_predictions                                               *)
(***************************************************************************)
\* the default of the hdi parameter, and the mass written in the calls of az.hdi
HdiDefault == 89

HdiProb == 89

\* the pair of groups read whatever the flag: always the posterior pair
SelectGroupsPosteriorOnly(prior) == [draws |-> "posterior", predictive |-> "posterior_predictive"]

\* if prior: ... else: ...   the pair of groups the call reads
SelectGroups(prior) ==
    IF prior THEN [draws |-> "prior", predictive |-> "prior_predictive"]
    ELSE [draws |-> "posterior", predictive |-> "posterior_predictive"]

\* pd.DataFrame({...}): the observed columns of raw_data beside the summaries
PredictionTable(raw_data, mean_pred, pred_hdi, obs_hdi) ==
    [c \in {"dW", "dW_pred_mean", "dW_pred_hdi_lower", "dW_pred_hdi_higher",
            "dW_obs_hdi_lower", "dW_obs_hdi_higher", "location", "dW_paper"} |->
        CASE c = "dW" -> raw_data["dW"]
          [] c = "dW_pred_mean" -> mean_pred
          [] c = "dW_pred_hdi_lower" -> [k \in 1..Len(pred_hdi) |-> pred_hdi[k].lower]
          [] c = "dW_pred_hdi_higher" -> [k \in 1..Len(pred_hdi) |-> pred_hdi[k].higher]
          [] c = "dW_obs_hdi_lower" -> [k \in 1..Len(obs_hdi) |-> obs_hdi[k].lower]
          [] c = "dW_obs_hdi_higher" -> [k \in 1..Len(obs_hdi) |-> obs_hdi[k].higher]
          [] c = "location" -> raw_data["location"]
          [] OTHER -> raw_data["dW_pred"]]

ExtractAppends == <<"", "_paper", "_pred_mean", "_pred_hdi_lower", "_pred_hdi_higher", "_obs_hdi_lower", "_obs_hdi_higher">>

\* the hdi argument is not read: both intervals are taken at HdiProb
extract_model_predictions(samples, raw_data, scale_min, scale_max, prior, hdi) ==
    LET sel == SelectGroups(prior) IN
    IF sel.draws \notin DOMAIN samples THEN Raise("AttributeError")
    ELSE IF sel.predictive \notin DOMAIN samples THEN Raise("AttributeError")
    ELSE LET mean_pred == MeanChainDraw(samples[sel.draws]["mu"])
             pred_hdi == Hdi(samples[sel.draws]["mu"], HdiProb)
             obs_hdi == Hdi(samples[sel.predictive]["dW"], HdiProb)
         IN IF Len(mean_pred) # NRows(raw_data) \/ Len(obs_hdi) # NRows(raw_data)
            THEN Raise("ValueError")
            ELSE rescale_target(PredictionTable(raw_data, mean_pred, pred_hdi, obs_hdi),
                                scale_min, scale_max, "dW", ExtractAppends)

(***************************************************************************)
(* Claims about rescale_target, checked under SpecRescale.                 *)
(***************************************************************************)
RescaleCalled == calls > 0

MinMap == args.scale_min_vals[args.target_name]

MaxMap == args.scale_max_vals[args.target_name]

HasBounds(g) == g \in DOMAIN MinMap /\ g \in DOMAIN MaxMap

TargetColumns == { args.target_name \o args.target_appends[k] : k \in 1..Len(args.target_appends) }

NoSuffixTwice ==
    \A j, k \in 1..Len(args.target_appends) : j # k => args.target_appends[j] # args.target_appends[k]

\* v * (mx - mn) + mn for a float v and integer bounds
Expected(v, mn, mx) == [n |-> v.n * (mx - mn) + mn * v.d, d |-> v.d]

\* every row of every targeted column holds the formula's value for the row's
\* own group, computed from the input value
RescaledOnceFromInput ==
    \A col \in TargetColumns : \A i \in 1..NRows(args.data) :
        LET g == args.data["location"][i] IN
        HasBounds(g) => FEq(ret.val[col][i], Expected(args.data[col][i], MinMap[g], MaxMap[g]))

\* C1 (as claimed): when a group key of the table has no entry in the min or
\* the max mapping, the call raises a lookup error and returns no table.
C1_MissingBoundRaises ==
    (RescaleCalled /\ \E i \in 1..NRows(args.data) : ~HasBounds(args.data["location"][i]))
        => ret.err = "KeyError"

\* C4 (as claimed): for every suffix list, every targeted column of the
\* returned table holds input * (max[g] - min[g]) + min[g] in every row.
C4_Original == (RescaleCalled /\ Returned(ret)) => RescaledOnceFromInput

\* how many times the suffix list names column col
TimesNamed(col) == Cardinality({ k \in 1..Len(args.target_appends) : args.target_name \o args.target_appends[k] = col })

\* the formula applied k times, each time to the previous result
RECURSIVE ExpectedTimes(_, _, _, _)
ExpectedTimes(v, mn, mx, k) == IF k = 0 THEN v ELSE ExpectedTimes(Expected(v, mn, mx), mn, mx, k - 1)

\* every row of every targeted column holds the formula applied as many
\* times as the list names the column, starting from the input value
RescaledAsOftenAsNamed ==
    \A col \in TargetColumns : \A i \in 1..NRows(args.data) :
        LET g == args.data["location"][i] IN
        HasBounds(g) => FEq(ret.val[col][i], ExpectedTimes(args.data[col][i], MinMap[g], MaxMap[g], TimesNamed(col)))

\* C4 (amended): the same, for suffix lists that name no suffix twice; a
\* column named k times holds the formula applied k times.
C4_RescaleFormula ==
    (RescaleCalled /\ Returned(ret)) =>
        /\ NoSuffixTwice => RescaledOnceFromInput
        /\ RescaledAsOftenAsNamed

C4_Witness ==
    /\ RescaleCalled /\ Returned(ret) /\ NoSuffixTwice
    /\ Len(args.target_appends) = 2
    /\ \E i, j \in 1..NRows(args.data) :
        /\ args.data["location"][i] = "a" /\ args.data["location"][j] = "b"
        /\ HasBounds("a") /\ HasBounds("b") /\ MinMap["a"] = 1 /\ MaxMap["a"] = 3
        /\ ~FEq(ret.val["dW_pred"][i], args.data["dW_pred"][i])
        /\ ~FEq(ret.val["dW"][j], args.data["dW"][j])

TempColumns == {"scale_min", "scale_max"}

\* every column of S is in the returned table with the input's values
KeptAsInInput(S) == \A c \in S : c \in Columns(ret.val) /\ ret.val[c] = args.data[c]

\* C5 (as claimed): the returned table has no scale_min or scale_max column,
\* and every input column that is not a targeted column is in it with the
\* input's values.
C5_Original ==
    (RescaleCalled /\ Returned(ret)) =>
        /\ TempColumns \cap Columns(ret.val) = {}
        /\ KeptAsInInput(Columns(args.data) \ TargetColumns)

\* C5 (amended): the returned table has no scale_min or scale_max column,
\* and every input column that is neither a targeted column nor named
\* scale_min or scale_max is in it with the input's values (an input column
\* named scale_min or scale_max is replaced by the call and not returned).
C5_TempsDroppedOthersKept ==
    (RescaleCalled /\ Returned(ret)) =>
        /\ TempColumns \cap Columns(ret.val) = {}
        /\ KeptAsInInput((Columns(args.data) \ TargetColumns) \ TempColumns)

C5_Witness ==
    /\ RescaleCalled /\ Returned(ret)
    /\ NRows(args.data) = 2
    /\ "scale_min" \in Columns(args.data)
    /\ TargetColumns = {"dW"}
    /\ ret.val["dW"] # args.data["dW"]
    /\ ret.val["dW_pred"] = args.data["dW_pred"]
    /\ ret.val["storm"] = args.data["storm"]
    /\ ret.val["location"] = args.data["location"]

\* C6: a call leaves the caller's table and both bound mappings as they were,
\* and a further call with the same arguments returns the same outcome.
C6_NoSideEffects == [][args' = args /\ (RescaleCalled => ret' = ret)]_vars

C6_Witness ==
    /\ calls = 2 /\ Returned(ret)
    /\ NRows(args.data) = 2
    /\ ret.val["dW"] # args.data["dW"]

(***************************************************************************)
(* Inputs of extract_model_predictions.                                    *)
(***************************************************************************)
MaxDraws == 5

ChainCounts == {1, 2}

\* an array of c chains and d draws from the sequence vs of the c * d draws,
\* each draw a sequence over the cases
ArrayOf(c, d, vs) == [ch \in 1..c |-> [dr \in 1..d |-> vs[(ch - 1) * d + dr]]]

\* draws in three runs of values: t[1] up to place k1, t[2] up to place k2, t[3] after
Run(t, k1, k2, i) == IF i <= k1 THEN t[1] ELSE IF i <= k2 THEN t[2] ELSE t[3]

Noise(i) == (i % 3) - 1

\* the four groups of a fit over two cases: latent mean mu and observed-scale
\* dW, prior and posterior, all different from one another and between the cases
AllGroups(c, d, t, k1, k2) ==
    LET P(i) == Run(t, k1, k2, i)
        post_mu == [i \in 1..(c * d) |-> <<P(i), 7 - P(i)>>]
        post_dW == [i \in 1..(c * d) |-> <<P(i) + Noise(i), 7 - P(i) + Noise(i)>>]
        prior_mu == [i \in 1..(c * d) |-> <<2 * P(i) + 1, P(i) - 3>>]
        prior_dW == [i \in 1..(c * d) |-> <<2 * P(i) + 1 - 2 * Noise(i), P(i) - 3 - 2 * Noise(i)>>]
    IN [g \in {"prior", "prior_predictive", "posterior", "posterior_predictive"} |->
          CASE g = "prior" -> [mu |-> ArrayOf(c, d, prior_mu)]
            [] g = "prior_predictive" -> [dW |-> ArrayOf(c, d, prior_dW)]
            [] g = "posterior" -> [mu |-> ArrayOf(c, d, post_mu)]
            [] OTHER -> [dW |-> ArrayOf(c, d, post_dW)]]

GroupSets ==
    { {"prior", "prior_predictive", "posterior", "posterior_predictive"},
      {"posterior", "posterior_predictive"},
      {"prior", "prior_predictive"},
      {"prior", "posterior", "posterior_predictive"},
      {"prior", "prior_predictive", "posterior"} }

Restrict(f, S) == [x \in S |-> f[x]]

\* chains x draws of the fits: every count up to the bounds, and the shapes
\* 3 x 3 and 1 x 7
Shapes == (ChainCounts \X (1..MaxDraws)) \cup {<<3, 3>>, <<1, 7>>}

SampleSets ==
    { Restrict(AllGroups(sh[1], sh[2], t, k[1], k[2]), G) :
        sh \in Shapes, t \in {<<0, 1, 5>>, <<5, 0, 1>>},
        k \in { kk \in (0..(2 * MaxDraws)) \X (0..(2 * MaxDraws)) : kk[1] <= kk[2] },
        G \in GroupSets }

\* observation tables of two rows (one per case), and one of a single row
RawTables ==
    { TableOf(<<[location |-> "a", dW |-> Num(0), dW_pred |-> Frac(1, 2)],
                [location |-> "b", dW |-> Num(1), dW_pred |-> Num(1)]>>),
      TableOf(<<[location |-> "a", dW |-> Num(1), dW_pred |-> Num(2)],
                [location |-> "a", dW |-> Num(0), dW_pred |-> Frac(1, 2)]>>),
      TableOf(<<[location |-> "b", dW |-> Frac(1, 2), dW_pred |-> Num(0)]>>) }

\* bound mappings: max above min; max below min for a; b missing from the min mapping
ExtractScales ==
    { [min |-> [dW |-> [a |-> 0, b |-> 2]], max |-> [dW |-> [a |-> 3, b |-> 5]]],
      [min |-> [dW |-> [a |-> 1, b |-> 2]], max |-> [dW |-> [a |-> 0, b |-> 5]]],
      [min |-> [dW |-> [a |-> 0]], max |-> [dW |-> [a |-> 3, b |-> 5]]] }

InitExtract ==
    /\ \E sc \in ExtractScales :
         args \in [samples : SampleSets, raw_data : RawTables, scale_min : {sc.min}, scale_max : {sc.max},
                   prior : BOOLEAN, hdi : {50, HdiDefault}]
    /\ ret = Pending
    /\ calls = 0

ExtractModelPredictions ==
    /\ calls = 0
    /\ ret' = extract_model_predictions(args.samples, args.raw_data, args.scale_min, args.scale_max,
                                        args.prior, args.hdi)
    /\ args' = args
    /\ calls' = 1

NextExtract == ExtractModelPredictions

SpecExtract == InitExtract /\ [][NextExtract]_vars

(***************************************************************************)
(* Claims about extract_model_predictions, checked under SpecExtract.      *)
(***************************************************************************)
ExtractReturned == calls > 0 /\ Returned(ret)

\* the groups the mode flag names
ModeDraws == IF args.prior THEN "prior" ELSE "posterior"

ModePredictive == IF args.prior THEN "prior_predictive" ELSE "posterior_predictive"

Cases == 1..NRows(args.raw_data)

GroupOfCase(k) == args.raw_data["location"][k]

CaseHasBounds(k) == GroupOfCase(k) \in DOMAIN args.scale_min["dW"] /\ GroupOfCase(k) \in DOMAIN args.scale_max["dW"]

\* v brought to the scale of case k's group
Scaled(v, k) == Expected(v, args.scale_min["dW"][GroupOfCase(k)], args.scale_max["dW"][GroupOfCase(k)])

\* the four HDI bound columns of case k are the scaled intervals, at mass
\* pct / 100, of the draws of groups gd (mu) and gp (dW)
HdiColumnsAre(k, gd, gp, pct) ==
    /\ FEq(ret.val["dW_pred_hdi_lower"][k], Scaled(Hdi(args.samples[gd]["mu"], pct)[k].lower, k))
    /\ FEq(ret.val["dW_pred_hdi_higher"][k], Scaled(Hdi(args.samples[gd]["mu"], pct)[k].higher, k))
    /\ FEq(ret.val["dW_obs_hdi_lower"][k], Scaled(Hdi(args.samples[gp]["dW"], pct)[k].lower, k))
    /\ FEq(ret.val["dW_obs_hdi_higher"][k], Scaled(Hdi(args.samples[gp]["dW"], pct)[k].higher, k))

\* the number of chain x draw values of a case, and their arithmetic mean
NValues == NChains(args.samples[ModeDraws]["mu"]) * NDraws(args.samples[ModeDraws]["mu"])

ArithmeticMean(k) == Frac(SumSeq(CaseValues(args.samples[ModeDraws]["mu"], k)), NValues)

\* C2 (as claimed): the four HDI bound columns are the highest-density
\* intervals at the mass passed as the hdi argument.
C2_HdiArgumentUsed ==
    ExtractReturned => \A k \in Cases : CaseHasBounds(k) => HdiColumnsAre(k, ModeDraws, ModePredictive, args.hdi)

\* C3 (as claimed): in every row of the returned table the latent-mean HDI
\* bounds bracket the mean prediction, for any draws.  Stated here for the
\* rows whose group has both bounds with max >= min only, where the
\* rescaling keeps the order of the three values.
C3_Original ==
    ExtractReturned => \A k \in Cases :
        (CaseHasBounds(k) /\ args.scale_min["dW"][GroupOfCase(k)] <= args.scale_max["dW"][GroupOfCase(k)]) =>
            /\ FLe(ret.val["dW_pred_hdi_lower"][k], ret.val["dW_pred_mean"][k])
            /\ FLe(ret.val["dW_pred_mean"][k], ret.val["dW_pred_hdi_higher"][k])

\* C3 (amended): in every row whose group has both bounds, with max >= min,
\* the mean column is the scaled arithmetic mean of all chain x draw values
\* and lower <= higher; the bounds bracket the mean when the interval at
\* mass 0.89 spans all the draws, floor(0.89 * n) = n - 1 (n <= 9 values).
C3_BracketWhenSpanning ==
    ExtractReturned => \A k \in Cases :
        (CaseHasBounds(k) /\ args.scale_min["dW"][GroupOfCase(k)] <= args.scale_max["dW"][GroupOfCase(k)]) =>
            /\ FEq(ret.val["dW_pred_mean"][k], Scaled(ArithmeticMean(k), k))
            /\ FLe(ret.val["dW_pred_hdi_lower"][k], ret.val["dW_pred_hdi_higher"][k])
            /\ ((HdiProb * NValues) \div 100 = NValues - 1 =>
                   /\ FLe(ret.val["dW_pred_hdi_lower"][k], ret.val["dW_pred_mean"][k])
                   /\ FLe(ret.val["dW_pred_mean"][k], ret.val["dW_pred_hdi_higher"][k]))

C3_Witness ==
    /\ ExtractReturned
    /\ NChains(args.samples[ModeDraws]["mu"]) = 2 /\ NDraws(args.samples[ModeDraws]["mu"]) = 3
    /\ \A k \in Cases : CaseHasBounds(k) /\ args.scale_min["dW"][GroupOfCase(k)] < args.scale_max["dW"][GroupOfCase(k)]
    /\ \E k \in Cases :
        /\ ~FEq(ret.val["dW_pred_hdi_lower"][k], ret.val["dW_pred_mean"][k])
        /\ ~FEq(ret.val["dW_pred_mean"][k], ret.val["dW_pred_hdi_higher"][k])
        /\ FLe(ret.val["dW_pred_hdi_lower"][k], ret.val["dW_pred_mean"][k])
        /\ FLe(ret.val["dW_pred_mean"][k], ret.val["dW_pred_hdi_higher"][k])

\* C7: the call fails when a group of the pair the flag names is absent,
\* whatever other groups are present; when it returns, the mean and the four
\* HDI bounds are those of the draws of that pair (at mass 0.89).
C7_ModeSelectsPair ==
    calls > 0 =>
        /\ ({ModeDraws, ModePredictive} \subseteq DOMAIN args.samples) \/ ret.err = "AttributeError"
        /\ Returned(ret) => \A k \in Cases : CaseHasBounds(k) =>
              /\ FEq(ret.val["dW_pred_mean"][k], Scaled(ArithmeticMean(k), k))
              /\ HdiColumnsAre(k, ModeDraws, ModePredictive, HdiProb)

C7_Witness ==
    /\ ExtractReturned
    /\ args.prior
    /\ DOMAIN args.samples = {"prior", "prior_predictive", "posterior", "posterior_predictive"}
    /\ \A k \in Cases : CaseHasBounds(k)
    /\ \E k \in Cases :
        /\ ~FEq(Scaled(MeanChainDraw(args.samples["posterior"]["mu"])[k], k), ret.val["dW_pred_mean"][k])
        /\ ~HdiColumnsAre(k, "posterior", "posterior_predictive", HdiProb)

(***************************************************************************)
(* calculate_r2_rmse                                                       *)
(*                                                                         *)
(* A score table (a DataFrame grown by .loc[row, column] = value) is its   *)
(* row labels in order, its column names in order, and its cells.  An RMSE *)
(* is kept exactly, as the number it is the square root of.                *)
(***************************************************************************)
Range(xs) == { xs[i] : i \in 1..Len(xs) }

\* x / y for y # 0
FDiv(x, y) ==
    IF IsNaN(x) \/ IsNaN(y) THEN NaN
    ELSE IF y.n > 0 THEN Norm(x.n * y.d, x.d * y.n)
    ELSE Norm(-(x.n * y.d), -(x.d * y.n))

RECURSIVE FSum(_)
FSum(xs) == IF xs = <<>> THEN Num(0) ELSE FAdd(Head(xs), FSum(Tail(xs)))

SqrtOf(q) == [sqrt_of |-> q]

\* the sum of squared differences of two columns
SumSquaredDiff(ys, zs) == FSum([i \in 1..Len(ys) |-> FMul(FSub(ys[i], zs[i]), FSub(ys[i], zs[i]))])

\* sklearn r2_score: NaN (with a warning) for fewer than two samples;
\* 1 - numerator / denominator; for a zero denominator 1.0 when the
\* numerator is zero too and 0.0 otherwise
r2_score(y_true, y_pred) ==
    IF Len(y_true) < 2 THEN NaN
    ELSE LET numerator == SumSquaredDiff(y_true, y_pred)
             y_mean == FDiv(FSum(y_true), Num(Len(y_true)))
             denominator == SumSquaredDiff(y_true, [i \in 1..Len(y_true) |-> y_mean])
         IN IF denominator.n # 0 THEN FSub(Num(1), FDiv(numerator, denominator))
            ELSE IF numerator.n # 0 THEN Num(0)
            ELSE Num(1)

\* sklearn root_mean_squared_error: the square root of the mean squared difference
root_mean_squared_error(y_true, y_pred) == SqrtOf(FDiv(SumSquaredDiff(y_true, y_pred), Num(Len(y_true))))

\* pd.DataFrame()
EmptyFrame == [index |-> <<>>, columns |-> <<>>, at |-> <<>>]

\* frame.loc[row, col] = v: sets the cell, adding the row and the column when
\* the frame lacks them (cells of an added row or column start as NaN)
SetLoc(frame, row, col, v) ==
    LET index == IF row \in Range(frame.index) THEN frame.index ELSE Append(frame.index, row)
        columns == IF col \in Range(frame.columns) THEN frame.columns ELSE Append(frame.columns, col)
    IN [index |-> index, columns |-> columns,
        at |-> [rc \in Range(index) \X Range(columns) |->
                   IF rc = <<row, col>> THEN v
                   ELSE IF rc \in DOMAIN frame.at THEN frame.at[rc] ELSE NaN]]

\* Series.unique(): the distinct values in the order they first appear
RECURSIVE Unique(_)
Unique(xs) ==
    IF xs = <<>> THEN <<>>
    ELSE LET front == Unique(SubSeq(xs, 1, Len(xs) - 1)) IN
         IF xs[Len(xs)] \in Range(front) THEN front ELSE Append(front, xs[Len(xs)])

\* the places of the rows of a location, in row order
RECURSIVE RowsOfLocation(_, _)
RowsOfLocation(locations, this_loc) ==
    IF locations = <<>> THEN <<>>
    ELSE LET front == RowsOfLocation(SubSeq(locations, 1, Len(locations) - 1), this_loc) IN
         IF locations[Len(locations)] = this_loc THEN Append(front, Len(locations)) ELSE front

TakeRows(t, places) == [c \in Columns(t) |-> [j \in 1..Len(places) |-> t[c][places[j]]]]

\* the whole table in place of the location's rows
GroupRowsAll(data, this_loc) == data

\* data.loc[data["location"] == this_loc]
GroupRows(data, this_loc) == TakeRows(data, RowsOfLocation(data["location"], this_loc))

\* an R2 entry with the undefined outcome replaced by 0.0
R2EntryMasked(this_df, target_name, this_append) ==
    LET r == r2_score(this_df[target_name], this_df[target_name \o this_append])
    IN IF IsNaN(r) THEN Num(0) ELSE r

\* r2_score(this_df[target_name], this_df[target_name + this_append])
R2Entry(this_df, target_name, this_append) == r2_score(this_df[target_name], this_df[target_name \o this_append])

\* root_mean_squared_error(this_df[target_name], this_df[target_name + this_append])
RmseEntry(this_df, target_name, this_append) == root_mean_squared_error(this_df[target_name], this_df[target_name \o this_append])

\* the inner loop over target_appends for one location; scores is the pair
\* <<r2_scores, rmse_scores>>
RECURSIVE ScoreAppends(_, _, _, _, _)
ScoreAppends(scores, this_df, this_loc, target_name, appends) ==
    IF appends = <<>> THEN Ok(scores)
    ELSE LET this_append == Head(appends) IN
         IF target_name \notin Columns(this_df) \/ (target_name \o this_append) \notin Columns(this_df)
         THEN Raise("KeyError")
         ELSE ScoreAppends(
                <<[scores[1] EXCEPT !["r2" \o this_append] =
                       SetLoc(@, this_loc, "r2", R2Entry(this_df, target_name, this_append))],
                  [scores[2] EXCEPT !["rmse" \o this_append] =
                       SetLoc(@, this_loc, "rmse", RmseEntry(this_df, target_name, this_append))]>>,
                this_df, this_loc, target_name, Tail(appends))

\* the outer loop over data["location"].unique()
RECURSIVE ScoreLocations(_, _, _, _, _)
ScoreLocations(scores, data, locs, target_name, target_appends) ==
    IF locs = <<>> THEN Ok(scores)
    ELSE LET one == ScoreAppends(scores, GroupRows(data, Head(locs)), Head(locs), target_name, target_appends)
         IN IF Returned(one) THEN ScoreLocations(one.val, data, Tail(locs), target_name, target_appends)
            ELSE one

calculate_r2_rmse(data, target_name, target_appends) ==
    LET r2_scores == [key \in { "r2" \o a : a \in Range(target_appends) } |-> EmptyFrame]
        rmse_scores == [key \in { "rmse" \o a : a \in Range(target_appends) } |-> EmptyFrame]
    IN ScoreLocations(<<r2_scores, rmse_scores>>, data, Unique(data["location"]), target_name, target_appends)

(***************************************************************************)
(* Inputs of calculate_r2_rmse.                                            *)
(***************************************************************************)
MaxScoreRows == 3

ScoreLocationsSet == {"north", "south", "east"}

\* observed, model prediction, paper prediction
ScoreValues == { <<Num(0), Num(0), Num(1)>>, <<Num(2), Num(3), Num(2)>>, <<Frac(1, 2), Num(1), Frac(1, 2)>> }

ScoreTableOf(rows) ==
    [c \in {"location", "dW", "dW_pred", "dW_paper"} |->
        [i \in 1..Len(rows) |->
            CASE c = "location" -> rows[i][1]
              [] c = "dW" -> rows[i][2][1]
              [] c = "dW_pred" -> rows[i][2][2]
              [] OTHER -> rows[i][2][3]]]

ScoreTables == UNION { { ScoreTableOf(rows) : rows \in [1..k -> ScoreLocationsSet \X ScoreValues] } : k \in 0..MaxScoreRows }

\* suffix lists: the default, shorter ones, one with a suffix twice, one
\* naming a column the table lacks
ScoreAppendLists == { <<"_pred", "_paper">>, <<"_pred">>, <<>>, <<"_paper", "_paper">>, <<"_pred", "_mean">> }

InitScore ==
    /\ args \in [data : ScoreTables, target_name : {"dW"}, target_appends : ScoreAppendLists]
    /\ ret = Pending
    /\ calls = 0

CalculateR2Rmse ==
    /\ calls = 0
    /\ ret' = calculate_r2_rmse(args.data, args.target_name, args.target_appends)
    /\ args' = args
    /\ calls' = 1

NextScore == CalculateR2Rmse

SpecScore == InitScore /\ [][NextScore]_vars

(***************************************************************************)
(* Claims about calculate_r2_rmse, checked under SpecScore.                *)
(***************************************************************************)
ScoreReturned == calls > 0 /\ Returned(ret)

ScoreGroups == Range(args.data["location"])

PlacesOf(g) == { i \in 1..NRows(args.data) : args.data["location"][i] = g }

FirstPlace(g) == CHOOSE i \in PlacesOf(g) : \A j \in PlacesOf(g) : i <= j

RECURSIVE Ascending(_)
Ascending(S) ==
    IF S = {} THEN <<>>
    ELSE LET lo == CHOOSE x \in S : \A y \in S : x <= y IN <<lo>> \o Ascending(S \ {lo})

\* the input table cut down to the rows at the places S, in row order
InputRows(S) == [c \in Columns(args.data) |-> [j \in 1..Cardinality(S) |-> args.data[c][Ascending(S)[j]]]]

\* the outcome of scoring a table with the call's other arguments
ScoresOf(t) == calculate_r2_rmse(t, args.target_name, args.target_appends).val

\* one row per group of the input, in the order the groups first appear
OneRowPerGroup(frame) ==
    /\ Len(frame.index) = Cardinality(ScoreGroups)
    /\ Range(frame.index) = ScoreGroups
    /\ \A i, j \in 1..Len(frame.index) : i < j => FirstPlace(frame.index[i]) < FirstPlace(frame.index[j])

\* the cell of every group is the one obtained by scoring the group's rows alone
FromOwnRows(frame, which, key, col) ==
    \A g \in ScoreGroups : frame.at[<<g, col>>] = ScoresOf(InputRows(PlacesOf(g)))[which][key].at[<<g, col>>]

KeysAndRows ==
    /\ DOMAIN ret.val[1] = { "r2" \o a : a \in Range(args.target_appends) }
    /\ DOMAIN ret.val[2] = { "rmse" \o a : a \in Range(args.target_appends) }
    /\ \A key \in DOMAIN ret.val[1] : OneRowPerGroup(ret.val[1][key]) /\ FromOwnRows(ret.val[1][key], 1, key, "r2")
    /\ \A key \in DOMAIN ret.val[2] : OneRowPerGroup(ret.val[2][key]) /\ FromOwnRows(ret.val[2][key], 2, key, "rmse")

\* C8 (as claimed): for every input table the collections have the keys
\* "r2" + suffix and "rmse" + suffix, and every inner table has one row per
\* group, in first-appearance order, and a single metric column whose value
\* for a group comes from the group's rows only.
C8_Original ==
    ScoreReturned =>
        /\ KeysAndRows
        /\ \A key \in DOMAIN ret.val[1] : ret.val[1][key].columns = <<"r2">>
        /\ \A key \in DOMAIN ret.val[2] : ret.val[2][key].columns = <<"rmse">>

\* C8 (amended): the same for every input table with at least one row; for
\* a table with no rows every inner table has no row and no column.
C8_KeysRowsColumn ==
    ScoreReturned =>
        /\ KeysAndRows
        /\ \A key \in DOMAIN ret.val[1] :
              ret.val[1][key].columns = IF NRows(args.data) > 0 THEN <<"r2">> ELSE <<>>
        /\ \A key \in DOMAIN ret.val[2] :
              ret.val[2][key].columns = IF NRows(args.data) > 0 THEN <<"rmse">> ELSE <<>>

C8_Witness ==
    /\ ScoreReturned
    /\ args.target_appends = <<"_pred", "_paper">>
    /\ NRows(args.data) = 3
    /\ ret.val[1]["r2_pred"].index = <<"south", "north">>
    /\ ret.val[2]["rmse_paper"].index = <<"south", "north">>
    /\ ~IsNaN(ret.val[1]["r2_pred"].at[<<"north", "r2">>])
    /\ ret.val[1]["r2_pred"].at[<<"north", "r2">>] # Num(1)

GroupMatches(g, a) ==
    \A i \in PlacesOf(g) : FEq(args.data[args.target_name][i], args.data[args.target_name \o a][i])

SquaredDiffAt(i, a) ==
    FMul(FSub(args.data[args.target_name][i], args.data[args.target_name \o a][i]),
         FSub(args.data[args.target_name][i], args.data[args.target_name \o a][i]))

\* the single-row groups: RMSE is |observed - predicted|, R2 is NaN
SingleRowEntries ==
    \A a \in Range(args.target_appends) : \A g \in ScoreGroups :
        Cardinality(PlacesOf(g)) = 1 =>
            /\ ret.val[2]["rmse" \o a].at[<<g, "rmse">>] = SqrtOf(SquaredDiffAt(FirstPlace(g), a))
            /\ IsNaN(ret.val[1]["r2" \o a].at[<<g, "r2">>])

\* the entries of the other groups are those of the table without the single-row groups
OthersUnchanged ==
    LET S == { i \in 1..NRows(args.data) : Cardinality(PlacesOf(args.data["location"][i])) > 1 } IN
    \A a \in Range(args.target_appends) : \A g \in ScoreGroups :
        Cardinality(PlacesOf(g)) > 1 =>
            /\ ret.val[1]["r2" \o a].at[<<g, "r2">>] = ScoresOf(InputRows(S))[1]["r2" \o a].at[<<g, "r2">>]
            /\ ret.val[2]["rmse" \o a].at[<<g, "rmse">>] = ScoresOf(InputRows(S))[2]["rmse" \o a].at[<<g, "rmse">>]

\* the groups of at least minRows rows whose observed and predicted columns match exactly
MatchingEntries(minRows) ==
    \A a \in Range(args.target_appends) : \A g \in ScoreGroups :
        (Cardinality(PlacesOf(g)) >= minRows /\ GroupMatches(g, a)) =>
            /\ ret.val[1]["r2" \o a].at[<<g, "r2">>] = Num(1)
            /\ ret.val[2]["rmse" \o a].at[<<g, "rmse">>] = SqrtOf(Num(0))

\* C9 (as claimed): single-row groups have RMSE |observed - predicted| and an
\* undefined R2, they leave the other groups' entries as they are, and every
\* group whose observed and predicted columns match has R2 = 1.0 and RMSE = 0.0.
C9_Original == ScoreReturned => (SingleRowEntries /\ OthersUnchanged /\ MatchingEntries(1))

\* C9 (amended): the same, with R2 = 1.0 and RMSE = 0.0 for the matching
\* groups of at least two rows (a matching single-row group has R2 NaN).
C9_SingleRowAndMatching == ScoreReturned => (SingleRowEntries /\ OthersUnchanged /\ MatchingEntries(2))

C9_Witness ==
    /\ ScoreReturned
    /\ args.target_appends = <<"_pred", "_paper">>
    /\ Cardinality(PlacesOf("north")) = 1 /\ Cardinality(PlacesOf("south")) = 2
    /\ ~GroupMatches("north", "_pred")
    /\ GroupMatches("south", "_paper") /\ ~FEq(args.data["dW"][1], args.data["dW"][NRows(args.data)])
    /\ IsNaN(ret.val[1]["r2_pred"].at[<<"north", "r2">>])
    /\ ret.val[1]["r2_paper"].at[<<"south", "r2">>] = Num(1)

(***************************************************************************)
(* plot_scatter_predictions_uncertainty: the rows drawn on each axis.      *)
(* The drawing itself (error bars, labels, the 1:1 line) is matplotlib's   *)
(* and is not modelled; an axis is recorded as its location and the places *)
(* (rows of data) and observed values of the rows it draws.                *)
(***************************************************************************)
\* fig.subplots(1, 3): the number of axes; n = 10: the default of n
NAxes == 3

TopDefault == 10

FLt(x, y) == FLe(x, y) /\ ~FEq(x, y)

\* Series.rank() (method "average", ascending), doubled to stay whole:
\* rank = (number of smaller values) + (number of equal values + 1) / 2
Rank2(col, i) ==
    2 * Cardinality({ j \in 1..Len(col) : FLt(col[j], col[i]) })
      + Cardinality({ j \in 1..Len(col) : FEq(col[j], col[i]) }) + 1

MaxRank2(col) == CHOOSE r \in { Rank2(col, i) : i \in 1..Len(col) } : \A i \in 1..Len(col) : Rank2(col, i) <= r

\* sub_data[sub_data["dW"].rank() >= sub_data["dW"].rank().max() - n]: the
\* places, within sub_data, of the rows kept
RECURSIVE KeptUpTo(_, _, _)
KeptUpTo(col, n, last) ==
    IF last = 0 THEN <<>>
    ELSE LET front == KeptUpTo(col, n, last - 1) IN
         IF Rank2(col, last) >= MaxRank2(col) - 2 * n THEN Append(front, last) ELSE front

KeepTop(col, n) == KeptUpTo(col, n, Len(col))

\* the columns one turn of the loop reads from sub_data, in the order read
ColumnsRead(target_name, target_append, upper, lower) ==
    { "dW", target_name, target_name \o target_append,
      target_name \o "_obs_hdi_higher", target_name \o "_obs_hdi_lower",
      target_name \o upper, target_name \o lower }

\* one turn of the loop: data.query("location == @loc"), the rank filter on
\* dW, then the two ax.errorbar calls on the rows kept: x and y of both, the
\* yerr of the first (observed-scale interval width) and of the second
\* (upper - lower)
AxisRows(data, loc, target_name, target_append, upper, lower, n) ==
    LET places == RowsOfLocation(data["location"], loc)
        sub_data == TakeRows(data, places)
        kept == KeepTop(sub_data["dW"], n)
        col(name) == [j \in 1..Len(kept) |-> sub_data[name][kept[j]]]
    IN [location |-> loc,
        places |-> [j \in 1..Len(kept) |-> places[kept[j]]],
        x |-> col(target_name),
        y |-> col(target_name \o target_append),
        yerr_obs |-> [j \in 1..Len(kept) |->
                         FSub(col(target_name \o "_obs_hdi_higher")[j], col(target_name \o "_obs_hdi_lower")[j])],
        yerr |-> [j \in 1..Len(kept) |-> FSub(col(target_name \o upper)[j], col(target_name \o lower)[j])]]

\* for ax, loc in zip(axes, data["location"].unique()): one turn per axis,
\* for the first locations only when there are more locations than axes.
\* A column the table lacks raises KeyError in the first turn, before
\* anything is drawn; a table with no rows has no turn.
plot_scatter_predictions_uncertainty(data, target_name, target_append, upper, lower, n) ==
    LET locs == Unique(data["location"])
        turns == IF Len(locs) < NAxes THEN Len(locs) ELSE NAxes
    IN IF turns > 0 /\ ~(ColumnsRead(target_name, target_append, upper, lower) \subseteq Columns(data))
       THEN Raise("KeyError")
       ELSE Ok([a \in 1..turns |-> AxisRows(data, locs[a], target_name, target_append, upper, lower, n)])

(***************************************************************************)
(* Inputs of plot_scatter_predictions_uncertainty.                         *)
(***************************************************************************)
MaxPlotRows == 4

\* a prediction summary table: location, observed dW and the four interval
\* bounds around it
PlotTableOf(rows) ==
    [c \in {"location", "dW", "dW_pred_hdi_lower", "dW_pred_hdi_higher", "dW_obs_hdi_lower", "dW_obs_hdi_higher"} |->
        [i \in 1..Len(rows) |->
            CASE c = "location" -> rows[i][1]
              [] c = "dW" -> Num(rows[i][2])
              [] c = "dW_pred_hdi_lower" -> Num(rows[i][2] - 1)
              [] c = "dW_pred_hdi_higher" -> Num(rows[i][2] + 2)
              [] c = "dW_obs_hdi_lower" -> Num(rows[i][2] - 3)
              [] OTHER -> Num(rows[i][2] + 3)]]

\* rows: a location and an observed dW
PlotRows == { <<"north", 1>>, <<"north", 2>>, <<"north", 3>>, <<"south", 2>>, <<"east", 1>>, <<"west", 3>> }

\* the summary tables, and the same tables without the observed-scale bounds
PlotTables ==
    UNION { { PlotTableOf(rows) : rows \in [1..k -> PlotRows] }
            \cup { DropColumns(PlotTableOf(rows), {"dW_obs_hdi_lower", "dW_obs_hdi_higher"}) : rows \in [1..k -> PlotRows] }
            : k \in 0..MaxPlotRows }

InitPlot ==
    /\ args \in [data : PlotTables, target_name : {"dW"}, target_append : {""},
                 upper : {"_pred_hdi_higher"}, lower : {"_pred_hdi_lower"}, n : {1, 2, TopDefault}]
    /\ ret = Pending
    /\ calls = 0

PlotScatterPredictionsUncertainty ==
    /\ calls = 0
    /\ ret' = plot_scatter_predictions_uncertainty(args.data, args.target_name, args.target_append,
                                                   args.upper, args.lower, args.n)
    /\ args' = args
    /\ calls' = 1

NextPlot == PlotScatterPredictionsUncertainty

SpecPlot == InitPlot /\ [][NextPlot]_vars

(***************************************************************************)
(* Claims about plot_scatter_predictions_uncertainty, checked under        *)
(* SpecPlot.                                                               *)
(***************************************************************************)
PlotPlaces(loc) == { i \in 1..NRows(args.data) : args.data["location"][i] = loc }

DistinctObserved(loc) ==
    \A i, j \in PlotPlaces(loc) : i # j => ~FEq(args.data["dW"][i], args.data["dW"][j])

\* C10 (as claimed): a plotted location with more than n rows of distinct
\* observed dW keeps exactly n rows; one with n rows or fewer keeps all its rows.
C10_KeepsTopN ==
    (calls > 0 /\ Returned(ret)) => \A a \in 1..Len(ret.val) :
        LET loc == ret.val[a].location IN
        /\ (Cardinality(PlotPlaces(loc)) > args.n /\ DistinctObserved(loc)) => Len(ret.val[a].places) = args.n
        /\ Cardinality(PlotPlaces(loc)) <= args.n => Range(ret.val[a].places) = PlotPlaces(loc)

============================================================================
